---- MODULE Spec2Model ----
(***************************************************************************)
(* A model of cRRunner (src/crrunner/crruner.py): the constructor, the     *)
(* lazily connected SSH / SFTP sessions, the recursive put, the polling    *)
(* execute-with-timeout and the run() sequence                             *)
(*     copy-to -> execute -> copy-from -> delete-remote.                   *)
(*                                                                         *)
(* Time is counted in ticks of 100 ms, the period of the poll loop.  Paths *)
(* are sequences of names (the remote side joins with '/').  A Python None *)
(* is the empty set and a present value x the singleton {x}, except for    *)
(* the credentials, which carry their Python type.                         *)
(***************************************************************************)
EXTENDS Integers, Sequences, FiniteSets, TLC

\* ------------------------------------------------------------------ bounds
MaxTimeout == 2      \* remoteCmdTimeout ranges over 0..MaxTimeout ticks
MaxDuration == 3     \* a command that ends does so at tick 0..MaxDuration
MaxJitter == 1       \* time.sleep(.1) oversleeps by 0..MaxJitter ticks
MaxRuns == 2         \* run() is called at most MaxRuns times on one runner
MaxFaults == 1       \* transport calls that fail though they could succeed

\* ------------------------------------------------------- program constants
STATUS_SUCCESS == 0
STATUS_TIMEOUT == 1
PollInterval == 1    \* time.sleep(.1): one tick
DefaultSshPort == 22 \* connect() is given no port: paramiko's default

\* ------------------------------------------------------------ Python values
None == {}
Some(x) == {x}
Get(o) == CHOOSE x \in o : TRUE

PyNone == [type |-> "NoneType", val |-> ""]
PyStr(s) == [type |-> "str", val |-> s]
PyBytes(s) == [type |-> "bytes", val |-> s]
\* type(x)
PyType(x) == x.type

\* No tick: a command that never ends, a poll or a kill that did not happen.
Never == 0 - 1

EmptyFn == [x \in {} |-> x]

Min(a, b) == IF a <= b THEN a ELSE b

\* ------------------------------------------------------ the local file tree
\* A three-level directory with a file at every level and an empty
\* subdirectory, and a single file beside it.
LocalFiles == { <<"f">>, <<"d", "a">>, <<"d", "s", "b">>, <<"d", "s", "t", "c">> }
LocalDirs == { <<"d">>, <<"d", "s">>, <<"d", "s", "t">>, <<"d", "e">> }

\* Other trees under "d": a flat directory of files, and a directory whose
\* only subdirectory holds nothing but an empty directory.
FlatFiles == { <<"f">>, <<"d", "a">>, <<"d", "b">>, <<"d", "c">> }
FlatDirs == { <<"d">> }
HollowFiles == { <<"f">>, <<"d", "a">> }
HollowDirs == { <<"d">>, <<"d", "s">>, <<"d", "s", "e">> }

Tree(files, dirs) == [files |-> files, dirs |-> dirs]
DefaultTree == Tree(LocalFiles, LocalDirs)
Trees == { DefaultTree, Tree(FlatFiles, FlatDirs), Tree(HollowFiles, HollowDirs) }

\* The local file system run() reads.
VARIABLE localTree

\* os.path.isfile
isfile(p) == p \in localTree.files

\* os.path.basename
basename(p) == << p[Len(p)] >>

\* The order in which os.listdir lists names (one fixed order).
NameOrder == << "a", "b", "c", "e", "f", "s", "t" >>

RECURSIVE SelectNames(_, _)
SelectNames(names, dir) ==
    IF names = << >> THEN << >>
    ELSE LET rest == SelectNames(Tail(names), dir)
         IN  IF Append(dir, Head(names)) \in localTree.files \cup localTree.dirs
             THEN << Head(names) >> \o rest
             ELSE rest

\* os.listdir(local)
listdir(dir) == SelectNames(NameOrder, dir)

\* ------------------------------------------------------------- CopyObject
CopyObject(local, remote) == [local |-> local, remote |-> remote]

\* CopyObject.__init__ raises ValueError (lines 57-58).
CopyObjectRaises(local, remote) == local = None /\ remote = None

CO_File == CopyObject(Some(<<"f">>), Some(<<"rf">>))
CO_Dir == CopyObject(Some(<<"d">>), Some(<<"rd">>))
CO_NoRemote == CopyObject(Some(<<"d", "a">>), None)
CO_NoLocal == CopyObject(None, Some(<<"rf">>))
\* The arguments of CopyObject(), which makes no object of them.
CO_Nothing == CopyObject(None, None)

CopyToChoices ==
    { << >>, << CO_File >>, << CO_Dir >>, << CO_File, CO_NoRemote >>,
      << CO_File, CO_File >>, << CO_NoLocal >>, << CO_Nothing >> }

CopyFromChoices == { << >>, << CO_File >> }

\* ------------------------------------------------------------------- _put
\* The transport calls _put makes, in program order, and the list it returns.
MkdirOp(path) == [op |-> "mkdir", local |-> << >>, remote |-> path]
PutOp(local, remote) == [op |-> "put", local |-> local, remote |-> remote]
\* os.path.isfile(None) of line 200
IsfileNoneOp == [op |-> "isfile", local |-> << >>, remote |-> << >>]

\* (mutant) the item is put beside the remote directory, not in it
RemoteJoin_DropsParent(remote, item) == << item >>

\* '%s/%s' % (remote, item)
RemoteJoin(remote, item) == Append(remote, item)

\* retList of a file (line 201) and of a folder (lines 204-211): a folder
\* adds nothing of its own to the lists of its items.
FileRet(remote) == << remote >>
\* (mutant) a folder records the remote directory it made
DirRet_RecordsDir(remote, itemsRet) == << remote >> \o itemsRet
DirRet(remote, itemsRet) == itemsRet

RECURSIVE put(_, _), putItems(_, _, _)
put(localArg, remoteArg) ==
    IF localArg = None THEN [ops |-> << IsfileNoneOp >>, ret |-> << >>]
    ELSE
    LET local == Get(localArg)
        remote == IF remoteArg = None THEN basename(local) ELSE Get(remoteArg)
    IN  IF isfile(local)
        THEN [ops |-> << PutOp(local, remote) >>, ret |-> FileRet(remote)]
        ELSE LET sub == putItems(local, remote, listdir(local))
             IN  [ops |-> << MkdirOp(remote) >> \o sub.ops,
                  ret |-> DirRet(remote, sub.ret)]

putItems(local, remote, items) ==
    IF items = << >> THEN [ops |-> << >>, ret |-> << >>]
    ELSE LET item == Head(items)
             fullPath == Append(local, item)
             child == RemoteJoin(remote, item)
             pre == IF isfile(fullPath) THEN << >> ELSE << MkdirOp(child) >>
             one == put(Some(fullPath), Some(child))
             rest == putItems(local, remote, Tail(items))
         IN  [ops |-> pre \o one.ops \o rest.ops, ret |-> one.ret \o rest.ret]

\* ------------------------------------------------------------------ Result
Result(statusCode, remoteReturnCode, stdout, stderr, exception) ==
    [statusCode |-> statusCode, remoteReturnCode |-> remoteReturnCode,
     stdout |-> stdout, stderr |-> stderr, exception |-> exception]

\* Result.didFail
didFail(r) == r.statusCode # 0

\* ------------------------------------------------------------------- state
VARIABLES
    pc,               \* where the caller / run() stands
    remoteIp, remotePort, remoteUsername, remotePassword,
    remoteCmd, remoteCmdTimeout, copyObjectsTo, copyObjectsFrom, cleanRemote,
    sshClient,        \* self._sshClient: None or a client
    sftpClient,       \* self._sftpClient: None or a client
    conns,            \* connect() calls of the current run
    sftps,            \* open_sftp() calls of the current run
    remoteToDelete,   \* self._remoteToDelete, the ledger
    remoteFiles,      \* the remote file system: path -> content
    remoteDirs,       \*   and its directories
    todo,             \* transport calls left in the _put of the current entry
    copyIdx,          \* index of the current copy-to entry
    delIdx,           \* index of the current path of the unlink loop
    cmd,              \* the remote command of this run
    now, deathTime,   \* time.time() since exec_command, and the deadline
    lastPollAt,       \* tick of the last exit_status_ready() call
    ex,               \* the exception caught by run()'s except clause
    result,           \* run()'s local variable result
    returned,         \* what run() returned
    exc,              \* the exception run() or the constructor raised
    runs,             \* run() calls begun
    steps,            \* the steps entered by the current run, in order
    uploaded,         \* remote paths put by the current run, in order
    made,             \* remote directories created by the current run
    unlinked,         \* paths the current run issued an unlink for, in order
    closes,           \* ssh.close() calls of the current run
    faults,           \* transport calls that failed though they could succeed
    args,             \* the arguments the caller's constructor call was given
    isDir             \* the last call, if of _remoteIsDir: its path and answer

\* What run() only reads: the configuration and the local tree.
cfgVars == << remoteIp, remotePort, remoteUsername, remotePassword, remoteCmd,
              remoteCmdTimeout, copyObjectsTo, copyObjectsFrom, cleanRemote,
              localTree >>
sessVars == << sshClient, sftpClient, conns, sftps >>
fsVars == << remoteFiles, remoteDirs >>
copyVars == << todo, copyIdx, remoteToDelete >>
cmdVars == << cmd, now, deathTime, lastPollAt, ex >>
histVars == << steps, uploaded, made, unlinked, closes >>
vars == << pc, cfgVars, sessVars, fsVars, copyVars, delIdx, cmdVars, result,
           returned, exc, runs, histVars, faults, args, isDir >>
\* What the calls of run() leave alone.
callVars == << args, isDir >>

\* ------------------------------------------------------------ input ranges
Hosts == { "10.0.0.5" }
Ports == { 22, 2222 }
Usernames == { PyNone, PyStr("root") }
Passwords == { PyNone, PyStr("secret"), PyBytes("secret") }
Commands == { None, Some("ping") }
Timeouts == 0 .. MaxTimeout
\* The timeout is read only when a command is configured: without one the
\* caller leaves it at its default.
DefaultTimeout == MaxTimeout
TimeoutsFor(command) == IF command = None THEN { DefaultTimeout } ELSE Timeouts
\* The local tree is read only below a directory entry.
TreesFor(to) == IF to = << CO_Dir >> THEN Trees ELSE { DefaultTree }
ExitCodes == { 0, 3 }
FinishTimes == { Never } \cup (0 .. MaxDuration)

NoCmd == [started |-> FALSE, finishAt |-> Never, exitCode |-> 0, killedAt |-> Never]

Init ==
    /\ pc = "new"
    /\ remoteIp = "" /\ remotePort = 0
    /\ remoteUsername = PyNone /\ remotePassword = PyNone
    /\ remoteCmd = None /\ remoteCmdTimeout = 0
    /\ copyObjectsTo = << >> /\ copyObjectsFrom = << >> /\ cleanRemote = FALSE
    /\ localTree = DefaultTree
    /\ sshClient = None /\ sftpClient = None /\ conns = 0 /\ sftps = 0
    /\ remoteToDelete = << >>
    /\ remoteFiles = EmptyFn /\ remoteDirs = {}
    /\ todo = << >> /\ copyIdx = 0 /\ delIdx = 0
    /\ cmd = NoCmd /\ now = 0 /\ deathTime = 0 /\ lastPollAt = Never
    /\ ex = None /\ result = None /\ returned = None /\ exc = "none"
    /\ runs = 0
    /\ steps = << >> /\ uploaded = << >> /\ made = {} /\ unlinked = << >>
    /\ closes = 0 /\ faults = 0
    /\ args = [username |-> PyNone, password |-> PyNone, copyTo |-> << >>,
               copyFrom |-> << >>]
    /\ isDir = None

\* ------------------------------------------------------------- __init__
\* The check of lines 94-95.
CredentialsRejected(username, password) == PyType(username) # PyType(password)

Construct ==
    /\ pc = "new"
    /\ \E ip \in Hosts, port \in Ports, user \in Usernames, pass \in Passwords,
          command \in Commands, to \in CopyToChoices,
          from \in CopyFromChoices, clean \in BOOLEAN :
       \E timeout \in TimeoutsFor(command), tree \in TreesFor(to) :
        /\ args' = [username |-> user, password |-> pass, copyTo |-> to,
                  copyFrom |-> from]
        /\ IF \E i \in DOMAIN to : CopyObjectRaises(to[i].local, to[i].remote)
          THEN /\ pc' = "copyObjectError"
               /\ exc' = "ValueError"
               /\ UNCHANGED cfgVars
          ELSE IF CredentialsRejected(user, pass)
          THEN /\ pc' = "ctorError"
               /\ exc' = "ValueError"
               /\ remoteIp' = ip /\ remoteCmdTimeout' = timeout
               /\ UNCHANGED << remotePort, remoteUsername, remotePassword,
                               remoteCmd, copyObjectsTo, copyObjectsFrom,
                               cleanRemote, localTree >>
          ELSE /\ pc' = "idle"
               /\ exc' = "none"
               /\ remoteIp' = ip /\ remotePort' = port
               /\ remoteUsername' = user /\ remotePassword' = pass
               /\ remoteCmd' = command /\ remoteCmdTimeout' = timeout
               /\ copyObjectsTo' = to /\ copyObjectsFrom' = from
               /\ cleanRemote' = clean
               /\ localTree' = tree
    /\ UNCHANGED << sessVars, fsVars, copyVars, delIdx, cmdVars, result,
                    returned, runs, histVars, faults, isDir >>

\* ----------------------------------------------------------- the sessions
\* (mutant) a cached client is used whatever became of its transport
NeedConnect_OnlyWithoutClient == sshClient = None

\* The test of line 120.
NeedConnect == sshClient = None \/ ~Get(sshClient).transport

\* (mutant) AutoAddPolicy is installed on every client
NewSshClient_AlwaysAutoAdd(connected) ==
    Some([transport |-> connected, autoAdd |-> TRUE,
          host |-> remoteIp, port |-> DefaultSshPort,
          username |-> remoteUsername, password |-> remotePassword])

\* Lines 121-127: a new client, with AutoAddPolicy only when both credentials
\* are given; connected tells whether connect() succeeded.
NewSshClient(connected) ==
    Some([transport |-> connected,
          autoAdd |-> (PyType(remoteUsername) # "NoneType"
                       /\ PyType(remotePassword) # "NoneType"),
          host |-> remoteIp, port |-> DefaultSshPort,
          username |-> remoteUsername, password |-> remotePassword])

\* self._sshClient after _getSshClient(), connectOk being connect()'s outcome.
getSshClient(connectOk) ==
    IF NeedConnect THEN NewSshClient(connectOk) ELSE sshClient

\* _getSshClient() raises: connect() was needed and failed.
getSshClientRaises(connectOk) == NeedConnect /\ ~connectOk

\* The test of line 137.
NeedSftp == sftpClient = None \/ Get(sftpClient).closed

\* self._sshClient and self._sftpClient after _getSftpClient().
getSftpClient(connectOk) ==
    IF NeedSftp
    THEN [ssh |-> getSshClient(connectOk),
          sftp |-> IF getSshClientRaises(connectOk) THEN sftpClient
                   ELSE Some([closed |-> FALSE])]
    ELSE [ssh |-> sshClient, sftp |-> sftpClient]

getSftpClientRaises(connectOk) == NeedSftp /\ getSshClientRaises(connectOk)

\* The connect() and open_sftp() calls made so far, n before the call of
\* _getSshClient() or _getSftpClient().
CountConnect(n, needed) == IF needed THEN n + 1 ELSE n
CountOpenSftp(n, connectOk) ==
    IF NeedSftp /\ ~getSshClientRaises(connectOk) THEN n + 1 ELSE n

\* (mutant) close() leaves the transport as it is
CloseSsh_LeavesOpen(client) == client

\* ssh.close(): the transport goes, and with it every channel opened on it.
CloseSsh(client) == Some([Get(client) EXCEPT !.transport = FALSE])
CloseSftp(client) == IF client = None THEN None ELSE Some([closed |-> TRUE])

\* --------------------------------------------------- the remote file system
Parent(path) == SubSeq(path, 1, Len(path) - 1)
ParentExists(path) == Len(path) = 1 \/ Parent(path) \in remoteDirs

\* sftp.put(local, remote) can succeed
CanPut(path) == ParentExists(path) /\ path \notin remoteDirs
\* sftp.mkdir(path) can succeed
CanMkdir(path) ==
    ParentExists(path) /\ path \notin remoteDirs /\ path \notin DOMAIN remoteFiles
\* sftp.unlink(path) can succeed
CanUnlink(path) == path \in DOMAIN remoteFiles

WriteFile(files, path, content) ==
    [q \in DOMAIN files \cup {path} |-> IF q = path THEN content ELSE files[q]]
RemoveFile(files, path) == [q \in DOMAIN files \ {path} |-> files[q]]

\* The outcomes of a transport call that can succeed (can) or cannot: a call
\* that can succeed may still fail (the network, a permission) while the
\* budget of such faults lasts.
Outcomes(can) ==
    IF ~can THEN { FALSE }
    ELSE IF faults < MaxFaults THEN { TRUE, FALSE } ELSE { TRUE }
Fault(can, ok) == faults' = IF can /\ ~ok THEN faults + 1 ELSE faults
\* connect() is called only when a session is missing.
ConnectOutcomes(needed) == IF needed THEN Outcomes(TRUE) ELSE { TRUE }
ConnectFault(needed, ok) == Fault(needed, ok)

\* ------------------------------------------------------------------- run()
\* (mutant) the execute step is entered without a command
AfterCopyTo_AlwaysExecute == "execute"

\* The step that follows the copy-to step (lines 277-278).
AfterCopyTo == IF remoteCmd # None THEN "execute" ELSE "copyFrom"

\* (mutant) the loop is left after its first entry
CopyToFinished_LeavesEarly(i) == i > 1

\* The loop of line 241 is over once entry i is past the last one.
CopyToFinished(i) == i > Len(copyObjectsTo)

\* (mutant) cleanRemote is ignored
AfterCopyFrom_NoClean == "done"

\* The step that follows the copy-from step (line 285).
AfterCopyFrom == IF cleanRemote THEN "clean" ELSE "done"

\* The transport calls of the _put of copy-to entry i.
EntryPut(i) == put(copyObjectsTo[i].local, copyObjectsTo[i].remote)
LoadEntry(i) == IF i <= Len(copyObjectsTo) THEN EntryPut(i).ops ELSE << >>

\* What _doCopyObjectsTo leaves in the ledger when every put succeeds.
RECURSIVE LedgerFrom(_)
LedgerFrom(i) ==
    IF i > Len(copyObjectsTo) THEN << >> ELSE EntryPut(i).ret \o LedgerFrom(i + 1)

Raise(kind) ==
    /\ pc' = "raised"
    /\ exc' = kind
    /\ returned' = None

\* (mutant) the ledger of the run before is kept
LedgerAtStart_Kept == remoteToDelete

\* self._remoteToDelete = [] of line 239.
LedgerAtStart == << >>

\* run() is called; _doCopyObjectsTo empties the ledger and gets the SFTP
\* client (lines 276, 239-240).
RunBegin ==
    /\ UNCHANGED callVars
    /\ pc \in { "idle", "done", "raised" }
    /\ runs < MaxRuns
    /\ runs' = runs + 1
    /\ remoteToDelete' = LedgerAtStart
    /\ steps' = << "copyTo" >>
    /\ uploaded' = << >> /\ made' = {} /\ unlinked' = << >> /\ closes' = 0
    /\ cmd' = NoCmd /\ now' = 0 /\ deathTime' = 0 /\ lastPollAt' = Never
    /\ ex' = None /\ result' = None /\ delIdx' = 0
    /\ \E connectOk \in ConnectOutcomes(NeedSftp /\ NeedConnect) :
          /\ ConnectFault(NeedSftp /\ NeedConnect, connectOk)
          /\ sshClient' = getSftpClient(connectOk).ssh
          /\ sftpClient' = getSftpClient(connectOk).sftp
          /\ conns' = CountConnect(0, NeedSftp /\ NeedConnect)
          /\ sftps' = CountOpenSftp(0, connectOk)
          /\ IF getSftpClientRaises(connectOk)
             THEN /\ Raise("ConnectionError")
                  /\ todo' = << >> /\ copyIdx' = 0
             ELSE /\ pc' = IF CopyToFinished(1) THEN AfterCopyTo ELSE "copyTo"
                  /\ exc' = "none" /\ returned' = None
                  /\ copyIdx' = 1
                  /\ todo' = LoadEntry(1)
    /\ UNCHANGED << cfgVars, fsVars >>

\* What follows the last transport call of an entry's _put: the ledger is
\* extended by the returned list and the loop of line 241 goes on.
EntryDone ==
    /\ remoteToDelete' = remoteToDelete \o EntryPut(copyIdx).ret
    /\ copyIdx' = copyIdx + 1
    /\ todo' = LoadEntry(copyIdx + 1)
    /\ pc' = IF CopyToFinished(copyIdx + 1) THEN AfterCopyTo ELSE "copyTo"

CopyStepDone ==
    IF Len(todo) = 1 THEN EntryDone
    ELSE /\ todo' = Tail(todo)
         /\ UNCHANGED << pc, copyIdx, remoteToDelete >>

\* (mutant) a failing put is passed over and the copy goes on
PutErrorCaught_Swallowed == TRUE

\* Nothing catches what sftp.put raises: not _put (line 202), not
\* _doCopyObjectsTo (lines 241-242), not run() (line 276).
PutErrorCaught == FALSE

\* sftp.put(local, remote) of line 202.
SftpPut ==
    /\ pc = "copyTo" /\ todo # << >> /\ Head(todo).op = "put"
    /\ LET op == Head(todo) IN
       \E ok \in Outcomes(CanPut(op.remote)) :
        /\ Fault(CanPut(op.remote), ok)
        /\ IF ok
          THEN /\ remoteFiles' = WriteFile(remoteFiles, op.remote, op.local)
               /\ uploaded' = Append(uploaded, op.remote)
               /\ CopyStepDone
               /\ UNCHANGED << exc, returned >>
          ELSE IF PutErrorCaught
          THEN /\ CopyStepDone
               /\ UNCHANGED << remoteFiles, uploaded, exc, returned >>
          ELSE /\ Raise("IOError")
               /\ UNCHANGED << remoteFiles, uploaded, copyVars >>
    /\ UNCHANGED << cfgVars, sessVars, remoteDirs, delIdx, cmdVars, result, runs,
                    steps, made, unlinked, closes, callVars >>

\* os.path.isfile(local) of line 200 with local None: os.stat(None) raises
\* TypeError, which isfile does not catch.
IsfileRaises ==
    /\ pc = "copyTo" /\ todo # << >> /\ Head(todo).op = "isfile"
    /\ Raise("TypeError")
    /\ UNCHANGED << cfgVars, sessVars, fsVars, copyVars, delIdx, cmdVars, result,
                    runs, histVars, faults, callVars >>

\* (mutant) an error of sftp.mkdir reaches the caller
MkdirErrorCaught_Reraised == FALSE

\* 'except: pass' of lines 183-184 catches whatever sftp.mkdir raises.
MkdirErrorCaught == TRUE

\* _safeMkdir(newDir): sftp.mkdir, any error thrown out (lines 180-184).
SafeMkdir ==
    /\ pc = "copyTo" /\ todo # << >> /\ Head(todo).op = "mkdir"
    /\ LET op == Head(todo) IN
       \E ok \in Outcomes(CanMkdir(op.remote)) :
        /\ Fault(CanMkdir(op.remote), ok)
        /\ IF ok
          THEN /\ remoteDirs' = remoteDirs \cup { op.remote }
               /\ made' = made \cup { op.remote }
          ELSE UNCHANGED << remoteDirs, made >>
        /\ IF ok \/ MkdirErrorCaught
          THEN /\ CopyStepDone
               /\ UNCHANGED << returned, exc >>
          ELSE /\ Raise("IOError")
               /\ UNCHANGED copyVars
    /\ UNCHANGED << cfgVars, sessVars, remoteFiles, delIdx, cmdVars, result,
                    runs, steps, uploaded, unlinked, closes, callVars >>

\* ------------------------------------------------------------ the command
\* An exception object: its class, and whether stdout / stderr were attached
\* to it (lines 168-170).
Exception(kind, streams) == Some([kind |-> kind, streams |-> streams])

\* The lines the command has written by tick t (one per tick while it runs).
LinesBy(t) == IF cmd.finishAt = Never THEN t ELSE Min(t, cmd.finishAt)

\* stdout.read() and stderr.read(): everything written until the command
\* ended or the transport was closed.
StreamEnd == IF cmd.killedAt # Never THEN cmd.killedAt ELSE cmd.finishAt
StdoutRead == LinesBy(StreamEnd)
StderrRead == LinesBy(StreamEnd) \div 2

\* read() returns: the stream ends only when the command ends or the
\* transport is closed.
ReadReturns == cmd.killedAt # Never \/ cmd.finishAt # Never

\* stdout.channel.exit_status_ready() (line 163)
exit_status_ready == cmd.finishAt # Never /\ cmd.finishAt <= now

\* (mutant) the loop also polls at the deadline itself
BeforeDeathTime_Inclusive == now <= deathTime

\* The loop condition of line 162.
BeforeDeathTime == now < deathTime

\* (mutant) the command is left running
KillCommand_NoClose(c) == c

\* ssh.close() of line 167, on the command.
KillCommand(c) == [c EXCEPT !.killedAt = now]

\* The Result of _execute (lines 147-148).
SuccessResult ==
    Result(STATUS_SUCCESS, Some(cmd.exitCode), StdoutRead, StderrRead, None)

\* (mutant) the except clause reports an exit code
TimeoutResult_WithExitCode(e) ==
    Result(STATUS_TIMEOUT, Some(cmd.exitCode), StdoutRead, StderrRead, Some(e.kind))

\* The Result of run()'s except clause (line 283).
TimeoutResult(e) ==
    Result(STATUS_TIMEOUT, None, StdoutRead, StderrRead, Some(e.kind))

\* _execute -> _raw_execute up to the deadline (lines 156-160).
ExecCommand ==
    /\ pc = "execute"
    /\ steps' = Append(steps, "execute")
    /\ \E connectOk \in ConnectOutcomes(NeedConnect), execOk \in Outcomes(TRUE),
          fin \in FinishTimes, code \in ExitCodes :
          /\ fin = Never => code = 0
          /\ ~connectOk => execOk
          /\ faults' = IF connectOk /\ execOk THEN faults ELSE faults + 1
          /\ sshClient' = getSshClient(connectOk)
          /\ conns' = CountConnect(conns, NeedConnect)
          /\ IF getSshClientRaises(connectOk)
             THEN /\ ex' = Exception("ConnectionError", FALSE)
                  /\ pc' = "except"
                  /\ UNCHANGED << cmd, now, deathTime >>
             ELSE IF ~execOk
             THEN /\ ex' = Exception("SSHException", FALSE)
                  /\ pc' = "except"
                  /\ UNCHANGED << cmd, now, deathTime >>
             ELSE /\ cmd' = [started |-> TRUE, finishAt |-> fin,
                             exitCode |-> code, killedAt |-> Never]
                  /\ now' = 0
                  /\ deathTime' = 0 + remoteCmdTimeout
                  /\ pc' = "poll"
                  /\ UNCHANGED ex
    /\ UNCHANGED << cfgVars, sftpClient, sftps, fsVars, copyVars, delIdx, lastPollAt,
                    result, returned, exc, runs, uploaded, made, unlinked,
                    closes, callVars >>

\* One turn of the poll loop (lines 162-165).
Poll ==
    /\ pc = "poll"
    /\ BeforeDeathTime
    /\ lastPollAt' = now
    /\ IF exit_status_ready
       THEN /\ pc' = "executeReturn"
            /\ UNCHANGED now
       ELSE /\ \E j \in 0 .. MaxJitter : now' = now + PollInterval + j
            /\ UNCHANGED pc
    /\ UNCHANGED << cfgVars, sessVars, fsVars, copyVars, delIdx, cmd, deathTime,
                    ex, result, returned, exc, runs, histVars , faults, callVars >>

\* The loop's else clause (lines 166-171).
PollTimeout ==
    /\ pc = "poll"
    /\ ~BeforeDeathTime
    /\ sshClient' = CloseSsh(sshClient)
    /\ sftpClient' = CloseSftp(sftpClient)
    /\ cmd' = KillCommand(cmd)
    /\ closes' = closes + 1
    /\ ex' = Exception("TimeoutError", TRUE)
    /\ pc' = "except"
    /\ UNCHANGED << cfgVars, conns, sftps, fsVars, copyVars, delIdx, now,
                    deathTime, lastPollAt, result, returned, exc, runs, steps,
                    uploaded, made, unlinked , faults, callVars >>

\* _execute after _raw_execute returned (lines 147-149, 280).
ExecuteReturn ==
    /\ pc = "executeReturn"
    /\ ReadReturns
    /\ result' = Some(SuccessResult)
    /\ pc' = "copyFrom"
    /\ UNCHANGED << cfgVars, sessVars, fsVars, copyVars, delIdx, cmdVars,
                    returned, exc, runs, histVars , faults, callVars >>

\* The except clause of run() (lines 281-283): ex.stdout and ex.stderr exist
\* only on the exception _raw_execute raised.
ExceptHandler ==
    /\ pc = "except"
    /\ LET e == Get(ex) IN
       IF e.streams
       THEN /\ ReadReturns
            /\ result' = Some(TimeoutResult(e))
            /\ pc' = "copyFrom"
            /\ UNCHANGED << returned, exc >>
       ELSE /\ Raise("AttributeError")
            /\ UNCHANGED result
    /\ UNCHANGED << cfgVars, sessVars, fsVars, copyVars, delIdx, cmdVars, runs,
                    histVars , faults, callVars >>

\* run() returns result (line 287).
Return ==
    /\ pc' = "done"
    /\ returned' = result
    /\ exc' = "none"

\* (mutant) a copy-from list is passed over
CopyFromRaises_Never == FALSE

\* The test of line 249.
CopyFromRaises == Len(copyObjectsFrom) # 0

\* _doCopyObjectsFrom and the test of line 285 (lines 249-250, 284-285).
DoCopyObjectsFrom ==
    /\ pc = "copyFrom"
    /\ steps' = Append(steps, "copyFrom")
    /\ IF CopyFromRaises THEN Raise("NotImplementedError")
       ELSE IF AfterCopyFrom = "clean" THEN /\ pc' = "clean"
                                            /\ UNCHANGED << returned, exc >>
       ELSE Return
    /\ UNCHANGED << cfgVars, sessVars, fsVars, copyVars, delIdx, cmdVars, result,
                    runs, uploaded, made, unlinked, closes , faults, callVars >>

\* _doDeleteRemote gets the SFTP client (line 257).
DoDeleteRemoteBegin ==
    /\ pc = "clean"
    /\ steps' = Append(steps, "cleanup")
    /\ \E connectOk \in ConnectOutcomes(NeedSftp /\ NeedConnect) :
          /\ ConnectFault(NeedSftp /\ NeedConnect, connectOk)
          /\ sshClient' = getSftpClient(connectOk).ssh
          /\ sftpClient' = getSftpClient(connectOk).sftp
          /\ conns' = CountConnect(conns, NeedSftp /\ NeedConnect)
          /\ sftps' = CountOpenSftp(sftps, connectOk)
          /\ IF getSftpClientRaises(connectOk)
             THEN /\ Raise("ConnectionError")
                  /\ UNCHANGED delIdx
             ELSE IF remoteToDelete = << >>
             THEN /\ Return
                  /\ UNCHANGED delIdx
             ELSE /\ pc' = "unlink"
                  /\ delIdx' = 1
                  /\ UNCHANGED << returned, exc >>
    /\ UNCHANGED << cfgVars, fsVars, copyVars, cmdVars, result, runs, uploaded,
                    made, unlinked, closes, callVars >>

\* One turn of the loop of lines 258-259.
Unlink ==
    /\ pc = "unlink"
    /\ LET path == remoteToDelete[delIdx] IN
       /\ unlinked' = Append(unlinked, path)
       /\ \E ok \in Outcomes(CanUnlink(path)) :
           /\ Fault(CanUnlink(path), ok)
           /\ IF ok
             THEN /\ remoteFiles' = RemoveFile(remoteFiles, path)
                  /\ IF delIdx = Len(remoteToDelete)
                     THEN /\ Return
                          /\ UNCHANGED delIdx
                     ELSE /\ delIdx' = delIdx + 1
                          /\ UNCHANGED << pc, returned, exc >>
             ELSE /\ Raise("IOError")
                  /\ UNCHANGED << remoteFiles, delIdx >>
    /\ UNCHANGED << cfgVars, sessVars, remoteDirs, copyVars, cmdVars, result,
                    runs, steps, uploaded, made, closes, callVars >>

\* ----------------------------------------------------------- specification
RunStep ==
    \/ SftpPut \/ SafeMkdir \/ IsfileRaises \/ ExecCommand \/ Poll \/ PollTimeout
    \/ ExecuteReturn \/ ExceptHandler \/ DoCopyObjectsFrom
    \/ DoDeleteRemoteBegin \/ Unlink

Next == Construct \/ RunBegin \/ RunStep

Spec == Init /\ [][Next]_vars

\* The runs of a constructed runner that has a command, with the thread of
\* run() never starved: once run() is called it keeps running.
InitLive ==
    /\ pc = "idle"
    /\ remoteIp \in Hosts /\ remotePort = DefaultSshPort
    /\ remoteUsername = PyNone /\ remotePassword = PyNone
    /\ remoteCmd = Some("ping") /\ remoteCmdTimeout \in Timeouts
    /\ copyObjectsTo \in { << >>, << CO_File >>, << CO_Dir >>, << CO_NoLocal >> }
    /\ copyObjectsFrom = << >> /\ cleanRemote \in BOOLEAN
    /\ localTree = DefaultTree
    /\ sshClient = None /\ sftpClient = None /\ conns = 0 /\ sftps = 0
    /\ remoteToDelete = << >>
    /\ remoteFiles = EmptyFn /\ remoteDirs = {}
    /\ todo = << >> /\ copyIdx = 0 /\ delIdx = 0
    /\ cmd = NoCmd /\ now = 0 /\ deathTime = 0 /\ lastPollAt = Never
    /\ ex = None /\ result = None /\ returned = None /\ exc = "none"
    /\ runs = 0
    /\ steps = << >> /\ uploaded = << >> /\ made = {} /\ unlinked = << >>
    /\ closes = 0 /\ faults = 0
    /\ args = [username |-> PyNone, password |-> PyNone,
               copyTo |-> copyObjectsTo, copyFrom |-> copyObjectsFrom]
    /\ isDir = None

NextLive == RunBegin \/ RunStep

\* run() is one thread and the clock advances: from the poll loop on,
\* whichever step run() stands at is eventually taken.
Fairness ==
    /\ WF_vars(Poll) /\ WF_vars(PollTimeout) /\ WF_vars(ExecuteReturn)
    /\ WF_vars(ExceptHandler) /\ WF_vars(DoCopyObjectsFrom)
    /\ WF_vars(DoDeleteRemoteBegin) /\ WF_vars(Unlink)

LiveSpec == InitLive /\ [][NextLive]_vars /\ Fairness

\* ------------------------------------------------- the directory helpers
\* The calls a caller makes on an idle runner to create, test and remove
\* remote directories: _safeMkdir, _remoteIsDir and the SFTP client's rmdir.
DirPaths == { << "test" >>, << "test", "sub" >>, << "rf" >> }

\* sftp.stat(path) can succeed
CanStat(path) == path \in remoteDirs \/ path \in DOMAIN remoteFiles
\* sftp.rmdir(path) can succeed: a directory with nothing in it
CanRmdir(path) ==
    /\ path \in remoteDirs
    /\ \A q \in remoteDirs \cup DOMAIN remoteFiles : Parent(q) # path

\* (mutant) a failed stat counts as a directory
remoteIsDir_TrueOnError(path, statOk) == ~statOk \/ path \in remoteDirs

\* What _remoteIsDir returns (lines 221-225), statOk telling whether
\* sftp.stat returned: S_ISDIR of the mode, or False when stat raised.
remoteIsDir(path, statOk) == statOk /\ path \in remoteDirs

\* _getSftpClient() as the first statement of a helper.
HelperGetsSftp(connectOk) ==
    /\ sshClient' = getSftpClient(connectOk).ssh
    /\ sftpClient' = getSftpClient(connectOk).sftp
    /\ conns' = CountConnect(conns, NeedSftp /\ NeedConnect)
    /\ sftps' = CountOpenSftp(sftps, connectOk)

\* connect() failed in _getSftpClient(): the helper raises.
HelperRaises ==
    /\ exc' = "ConnectionError"
    /\ faults' = faults + 1
    /\ isDir' = None
    /\ UNCHANGED << fsVars, made >>

\* _remoteIsDir(path) (lines 220-225).
RemoteIsDirCall ==
    /\ pc = "idle"
    /\ \E path \in DirPaths,
          connectOk \in ConnectOutcomes(NeedSftp /\ NeedConnect) :
          /\ HelperGetsSftp(connectOk)
          /\ IF getSftpClientRaises(connectOk) THEN HelperRaises
             ELSE \E statOk \in Outcomes(CanStat(path)) :
                    /\ Fault(CanStat(path), statOk)
                    /\ isDir' = Some([path |-> path, statOk |-> statOk,
                                      answer |-> remoteIsDir(path, statOk)])
                    /\ exc' = "none"
                    /\ UNCHANGED << fsVars, made >>
    /\ UNCHANGED << pc, cfgVars, copyVars, delIdx, cmdVars, result, returned,
                    runs, steps, uploaded, unlinked, closes, args >>

\* _safeMkdir(path) called by the caller (lines 179-184).
SafeMkdirCall ==
    /\ pc = "idle"
    /\ \E path \in DirPaths,
          connectOk \in ConnectOutcomes(NeedSftp /\ NeedConnect) :
          /\ HelperGetsSftp(connectOk)
          /\ IF getSftpClientRaises(connectOk) THEN HelperRaises
             ELSE \E ok \in Outcomes(CanMkdir(path)) :
                    /\ Fault(CanMkdir(path), ok)
                    /\ IF ok
                       THEN /\ remoteDirs' = remoteDirs \cup { path }
                            /\ made' = made \cup { path }
                       ELSE UNCHANGED << remoteDirs, made >>
                    /\ exc' = "none"
                    /\ isDir' = None
                    /\ UNCHANGED remoteFiles
    /\ UNCHANGED << pc, cfgVars, copyVars, delIdx, cmdVars, result, returned,
                    runs, steps, uploaded, unlinked, closes, args >>

\* _getSftpClient().rmdir(path) called by the caller.
RmdirCall ==
    /\ pc = "idle"
    /\ \E path \in DirPaths,
          connectOk \in ConnectOutcomes(NeedSftp /\ NeedConnect) :
          /\ HelperGetsSftp(connectOk)
          /\ IF getSftpClientRaises(connectOk) THEN HelperRaises
             ELSE \E ok \in Outcomes(CanRmdir(path)) :
                    /\ Fault(CanRmdir(path), ok)
                    /\ remoteDirs' = IF ok THEN remoteDirs \ { path }
                                     ELSE remoteDirs
                    /\ exc' = IF ok THEN "none" ELSE "IOError"
                    /\ isDir' = None
                    /\ UNCHANGED << remoteFiles, made >>
    /\ UNCHANGED << pc, cfgVars, copyVars, delIdx, cmdVars, result, returned,
                    runs, steps, uploaded, unlinked, closes, args >>

\* A constructed runner that is given no run() call, and a remote side that
\* may hold a file.
InitDir ==
    /\ pc = "idle"
    /\ remoteIp \in Hosts /\ remotePort = DefaultSshPort
    /\ remoteUsername = PyNone /\ remotePassword = PyNone
    /\ remoteCmd = None /\ remoteCmdTimeout = DefaultTimeout
    /\ copyObjectsTo = << >> /\ copyObjectsFrom = << >> /\ cleanRemote = TRUE
    /\ localTree = DefaultTree
    /\ sshClient = None /\ sftpClient = None /\ conns = 0 /\ sftps = 0
    /\ remoteToDelete = << >>
    /\ remoteFiles \in { EmptyFn, WriteFile(EmptyFn, << "rf" >>, << "f" >>) }
    /\ remoteDirs = {}
    /\ todo = << >> /\ copyIdx = 0 /\ delIdx = 0
    /\ cmd = NoCmd /\ now = 0 /\ deathTime = 0 /\ lastPollAt = Never
    /\ ex = None /\ result = None /\ returned = None /\ exc = "none"
    /\ runs = 0
    /\ steps = << >> /\ uploaded = << >> /\ made = {} /\ unlinked = << >>
    /\ closes = 0 /\ faults = 0
    /\ args = [username |-> PyNone, password |-> PyNone,
               copyTo |-> << >>, copyFrom |-> << >>]
    /\ isDir = None

NextDir == SafeMkdirCall \/ RemoteIsDirCall \/ RmdirCall

DirSpec == InitDir /\ [][NextDir]_vars

\* ------------------------------------------------------------ properties
Range(seq) == { seq[i] : i \in DOMAIN seq }

Entered(step) == step \in Range(steps)

StepRank(step) ==
    CASE step = "copyTo" -> 1 [] step = "execute" -> 2
      [] step = "copyFrom" -> 3 [] step = "cleanup" -> 4

\* The remote command has finished or has been killed.
CommandOver ==
    cmd.killedAt # Never \/ (cmd.finishAt # Never /\ cmd.finishAt <= now)

\* Every put of every copy-to entry has completed.
CopyToCompleted == runs > 0 /\ copyIdx > Len(copyObjectsTo)

\* run() has ended, by returning or by raising.
RunEnded == runs > 0 /\ pc \in { "done", "raised" }

\* The execute step is behind: run() is at the copy-from step or further.
ExecuteStepOver ==
    \/ pc \in { "copyFrom", "clean", "unlink", "done" }
    \/ pc = "raised" /\ Entered("copyFrom")

\* C1: in every run the steps are entered in the order copy-to, execute (only
\* with a command), copy-from, cleanup (only with cleanRemote), none twice;
\* every put of every entry has completed before the command is started, the
\* command is over before the copy-from step, and no unlink is issued before
\* the copy-from step is done.
C1_StepOrder ==
    /\ \A i \in 1 .. Len(steps) - 1 : StepRank(steps[i]) < StepRank(steps[i + 1])
    /\ runs > 0 => steps[1] = "copyTo"
    /\ Entered("execute") => remoteCmd # None
    /\ Entered("copyFrom") => (Entered("execute") <=> remoteCmd # None)
    /\ Entered("cleanup") => cleanRemote /\ Entered("copyFrom")
    /\ pc = "done" => Entered("copyFrom") /\ (Entered("cleanup") <=> cleanRemote)
    /\ cmd.started => Entered("execute")
    /\ Entered("execute") \/ Entered("copyFrom") =>
          CopyToCompleted /\ todo = << >> /\ uploaded = LedgerFrom(1)
    /\ Entered("copyFrom") /\ cmd.started => CommandOver
    /\ unlinked # << >> => Entered("copyFrom") /\ pc \in { "unlink", "done", "raised" }

C1_Witness ==
    /\ pc = "done"
    /\ steps = << "copyTo", "execute", "copyFrom", "cleanup" >>
    /\ cmd.started
    /\ Len(uploaded) = 2
    /\ unlinked = uploaded

\* C2: a run with cleanRemote whose copy-to step completed has, when it ends,
\* run the cleanup step, that is unlinked every ledger path, whatever the
\* execute and copy-from steps did.
C2_CleanupGuaranteed ==
    RunEnded /\ cleanRemote /\ CopyToCompleted => unlinked = remoteToDelete

\* The command is still running when its timeout elapses.
StillRunningAtDeadline ==
    cmd.started /\ (cmd.finishAt = Never \/ cmd.finishAt > deathTime)

\* C3: when the command is still running at its deadline, the transport is
\* closed and the execute step does not raise: it yields a Result with
\* statusCode STATUS_TIMEOUT (1), failed, without exit code, whose stdout
\* and stderr are what the streams held at the kill, which is at least what
\* was written by the deadline; run() returns that Result.
C3_TimeoutResult ==
    StillRunningAtDeadline =>
        /\ pc # "executeReturn"
        /\ exc # "TimeoutError"
        /\ pc = "raised" => Entered("copyFrom")
        /\ pc = "except" =>
              /\ Get(ex) = [kind |-> "TimeoutError", streams |-> TRUE]
              /\ ~Get(sshClient).transport
              /\ cmd.killedAt = now
        /\ ExecuteStepOver =>
              /\ result # None
              /\ Get(result).statusCode = STATUS_TIMEOUT
              /\ Get(result).statusCode = 1
              /\ didFail(Get(result))
              /\ Get(result).remoteReturnCode = None
              /\ Get(result).stdout = LinesBy(cmd.killedAt)
              /\ Get(result).stdout >= LinesBy(deathTime)
              /\ Get(result).stderr = LinesBy(cmd.killedAt) \div 2
              /\ Get(result).exception = Some("TimeoutError")
        /\ pc = "done" => returned = result

C3_Witness ==
    /\ pc = "done"
    /\ cmd.started /\ cmd.finishAt = Never
    /\ returned # None
    /\ Get(returned).statusCode = STATUS_TIMEOUT
    /\ Get(returned).stdout >= 2

\* The command finished before its deadline.
FinishedBeforeDeadline ==
    cmd.started /\ cmd.finishAt # Never /\ cmd.finishAt < deathTime

\* A poll made by the loop found the command finished.
SawReady ==
    lastPollAt # Never /\ cmd.finishAt # Never /\ cmd.finishAt <= lastPollAt

\* C4 as stated: a command that finishes before the deadline yields Success
\* with its exit code and output and the transport is not closed; a Timeout
\* is produced only when the command had not finished by the deadline.
C4_SuccessBeforeDeadline ==
    cmd.started /\ ExecuteStepOver =>
        /\ FinishedBeforeDeadline =>
              /\ result = Some(Result(STATUS_SUCCESS, Some(cmd.exitCode),
                                      cmd.finishAt, cmd.finishAt \div 2, None))
              /\ closes = 0
        /\ Get(result).statusCode = STATUS_TIMEOUT =>
              cmd.finishAt = Never \/ cmd.finishAt >= deathTime

\* C4 amended: the loop polls only before the deadline; the execute step
\* yields Success, with the exit code, the whole output and the transport
\* left open, exactly when one of those polls found the command finished, and
\* a Timeout otherwise; a command that finishes a full sleep (with its
\* oversleep) before the deadline is always found finished.
C4_SuccessIffPolledReady ==
    /\ lastPollAt # Never => cmd.started /\ lastPollAt < deathTime
    /\ cmd.started /\ ExecuteStepOver =>
          /\ IF SawReady
             THEN /\ result = Some(Result(STATUS_SUCCESS, Some(cmd.exitCode),
                                          cmd.finishAt, cmd.finishAt \div 2, None))
                  /\ closes = 0 /\ cmd.killedAt = Never
                  /\ pc = "copyFrom" => Get(sshClient).transport
             ELSE /\ Get(result).statusCode = STATUS_TIMEOUT
                  /\ closes = 1 /\ cmd.killedAt # Never
          /\ cmd.finishAt # Never
                /\ cmd.finishAt + PollInterval + MaxJitter <= deathTime => SawReady

C4_Witness ==
    /\ pc = "done"
    /\ returned # None
    /\ Get(returned).statusCode = STATUS_SUCCESS
    /\ Get(returned).remoteReturnCode = Some(3)
    /\ lastPollAt >= 1

\* C5: no exception of the execute step leaves run(): whenever the execute
\* step was entered, run() goes on to the copy-from step with a Result.
C5_ExecuteNeverRaises ==
    RunEnded /\ Entered("execute") => Entered("copyFrom") /\ result # None

\* C6: once the cleanup step has its session, an unlink is issued for every
\* ledger path, once each and in recorded order, also when an earlier unlink
\* failed.
C6_AllUnlinked ==
    RunEnded /\ Entered("cleanup") /\ exc # "ConnectionError" =>
        unlinked = remoteToDelete

\* C7 as stated: the ledger is the record of every remote path the puts
\* created, files and directories; a run with cleanup that returns has issued
\* as many deletions as files plus directories created, and nothing it
\* created is left.
C7_LedgerRecordsAllCreated ==
    /\ CopyToCompleted => Range(remoteToDelete) = Range(uploaded) \cup made
    /\ pc = "done" /\ cleanRemote =>
          /\ Len(unlinked) = Len(uploaded) + Cardinality(made)
          /\ made \cap remoteDirs = {}
          /\ Range(uploaded) \cap DOMAIN remoteFiles = {}

\* C7 amended: the ledger is the list of the files the puts uploaded, in
\* upload order, and holds no directory; no unlink is ever issued for a
\* directory, so the directories a run made stay; a run with cleanup that
\* returns has issued as many deletions as files uploaded and left none of
\* those files.
C7_LedgerRecordsFiles ==
    /\ CopyToCompleted => remoteToDelete = uploaded
    /\ Range(remoteToDelete) \cap remoteDirs = {}
    /\ Range(unlinked) \cap remoteDirs = {}
    /\ made \subseteq remoteDirs
    /\ pc = "done" /\ cleanRemote =>
          /\ unlinked = uploaded
          /\ Range(uploaded) \cap DOMAIN remoteFiles = {}

C7_Witness ==
    /\ pc = "done" /\ cleanRemote
    /\ copyObjectsTo = << CO_Dir >>
    /\ Cardinality(made) = 4
    /\ Len(unlinked) = 3

\* Every copy-to entry is a regular file.
AllEntriesAreFiles ==
    \A i \in DOMAIN copyObjectsTo :
       copyObjectsTo[i].local # None /\ isfile(Get(copyObjectsTo[i].local))

\* The remote path of copy-to entry i, a regular file.
EntryRemote(i) == EntryPut(i).ret[1]

\* C8: with regular files as copy-to entries and cleanup enabled, every copied
\* file is on the remote, with the content of a local file copied to it, from
\* the end of the copy-to step through the execute step, and is absent once
\* run() has returned.
C8_FilePresentThenAbsent ==
    runs > 0 /\ cleanRemote /\ AllEntriesAreFiles =>
        /\ pc \in { "execute", "poll", "executeReturn", "except", "copyFrom" } =>
              \A i \in DOMAIN copyObjectsTo :
                 /\ EntryRemote(i) \in DOMAIN remoteFiles
                 /\ \E j \in DOMAIN copyObjectsTo :
                       /\ EntryRemote(j) = EntryRemote(i)
                       /\ remoteFiles[EntryRemote(i)] = Get(copyObjectsTo[j].local)
        /\ pc = "done" =>
              \A i \in DOMAIN copyObjectsTo :
                 EntryRemote(i) \notin DOMAIN remoteFiles

C8_Witness ==
    /\ pc = "done" /\ cleanRemote
    /\ copyObjectsTo = << CO_File >>
    /\ cmd.started
    /\ returned # None /\ Get(returned).statusCode = STATUS_SUCCESS
    /\ unlinked = << << "rf" >> >>
    /\ remoteFiles = EmptyFn

\* C9: the execute step never hangs.  The streams of a timed out command are
\* read only with the transport closed and the command killed; and, the
\* thread being scheduled, every poll loop is left, by returning or by the
\* timeout, and the run it belongs to ends.
C9_NeverHangs ==
    /\ [](pc = "except" /\ Get(ex).streams =>
             ~Get(sshClient).transport /\ cmd.killedAt # Never)
    /\ [][pc = "poll" => pc' \in { "poll", "executeReturn", "except" }]_vars
    /\ (pc = "poll") ~> (pc \in { "done", "raised" })

C9_Witness ==
    /\ pc = "except"
    /\ Get(ex).kind = "TimeoutError"
    /\ cmd.finishAt = Never

\* A credential is supplied: it is not None.
Supplied(x) == PyType(x) # "NoneType"

\* C10: the constructor fails exactly when one of remoteUsername and
\* remotePassword is supplied without the other.
C10_BothOrNeither ==
    pc # "new" =>
        ((pc = "ctorError") <=> (Supplied(args.username) # Supplied(args.password)))

\* Exactly one side of a copy object is set.
OneSideSet(o) == (o.local = None) # (o.remote = None)

\* C11: CopyObject() fails exactly when both sides are unset; a copy-to entry
\* with one side unset is transferred under the base name of its other side:
\* once the loop is past such an entry, a file of that name is uploaded, and
\* the unset side never stops the transfer.
C11_UnsetSideDefaults ==
    /\ pc # "new" =>
          ((pc = "copyObjectError") <=>
              \E i \in DOMAIN args.copyTo :
                 args.copyTo[i].local = None /\ args.copyTo[i].remote = None)
    /\ \A i \in DOMAIN copyObjectsTo :
          OneSideSet(copyObjectsTo[i]) =>
             /\ runs > 0 /\ copyIdx > i =>
                   LET o == copyObjectsTo[i]
                       name == basename(IF o.local = None THEN Get(o.remote)
                                        ELSE Get(o.local))
                   IN  name \in Range(uploaded) \/ Get(o.remote) \in Range(uploaded)
             /\ pc = "raised" /\ copyIdx = i => exc = "IOError"

\* The paths among paths that are dir or lie below it.
Below(dir, paths) ==
    { p \in paths : Len(p) >= Len(dir) /\ SubSeq(p, 1, Len(dir)) = dir }

\* The remote path with, below remoteDir, the place p has below localDir.
Mirror(localDir, remoteDir, p) ==
    remoteDir \o SubSeq(p, Len(localDir) + 1, Len(p))

\* run() stands between the copy-to step and the first unlink.
CopiedNotCleaned ==
    pc \in { "execute", "poll", "executeReturn", "except", "copyFrom", "clean" }

\* C12: once a copy-to entry that is a local directory has been put with no
\* transport call failing, the remote tree under its remote directory is the
\* local tree: a remote directory for every local directory (empty ones
\* too), a remote file with the local file's content at the same relative
\* path for every local file, and nothing else.
C12_TreeMirrored ==
    \A i \in DOMAIN copyObjectsTo :
       LET o == copyObjectsTo[i] IN
       /\ o.local # None /\ o.remote # None /\ Get(o.local) \in localTree.dirs
       /\ runs > 0 /\ copyIdx > i /\ faults = 0 /\ CopiedNotCleaned
       => LET d == Get(o.local)
              r == Get(o.remote)
          IN  /\ Below(r, remoteDirs) =
                    { Mirror(d, r, p) : p \in Below(d, localTree.dirs) }
              /\ Below(r, DOMAIN remoteFiles) =
                    { Mirror(d, r, p) : p \in Below(d, localTree.files) }
              /\ \A p \in Below(d, localTree.files) :
                    remoteFiles[Mirror(d, r, p)] = p
              /\ remoteDirs = Below(r, remoteDirs)
              /\ DOMAIN remoteFiles = Below(r, DOMAIN remoteFiles)

C12_Witness ==
    /\ pc = "copyFrom" /\ faults = 0
    /\ copyObjectsTo = << CO_Dir >> /\ localTree = DefaultTree
    /\ remoteDirs = { <<"rd">>, <<"rd", "e">>, <<"rd", "s">>, <<"rd", "s", "t">> }
    /\ DOMAIN remoteFiles =
          { <<"rd", "a">>, <<"rd", "s", "b">>, <<"rd", "s", "t", "c">> }

\* run() is about to call _safeMkdir on the path of the next transport call.
AtSafeMkdir == pc = "copyTo" /\ todo # << >> /\ Head(todo).op = "mkdir"

\* C13: _safeMkdir never fails its caller and is idempotent: whatever
\* sftp.mkdir does, the call returns and _put goes on with its next call
\* without any exception; it creates at most the directory asked for, and a
\* call on a directory that exists leaves the remote state as it is.
C13_SafeMkdirIdempotent ==
    [][AtSafeMkdir =>
          /\ pc' # "raised" /\ exc' = exc
          /\ todo' = Tail(todo) \/ copyIdx' = copyIdx + 1
          /\ remoteFiles' = remoteFiles
          /\ remoteDirs' \in { remoteDirs, remoteDirs \cup { Head(todo).remote } }
          /\ Head(todo).remote \in remoteDirs => remoteDirs' = remoteDirs]_vars

\* Every subdirectory got its two _safeMkdir calls, one of which failed for
\* another reason than the directory being there, and the copy went through.
C13_Witness ==
    /\ pc = "copyFrom" /\ remoteCmd = None /\ runs = 1
    /\ copyObjectsTo = << CO_Dir >> /\ localTree = DefaultTree
    /\ faults = 1
    /\ Cardinality(made) = 4

\* C14: without a command, run() starts no remote command, never closes the
\* transport and has no Result; it still does the copy-to step and, with
\* cleanRemote, the cleanup step, and returns None.  With a command, what
\* run() returns is the Result of the execute step: the Success Result of
\* _execute, or the Timeout Result made from the exception caught.
C14_NoCommandNoResult ==
    /\ runs > 0 /\ remoteCmd = None =>
          /\ ~Entered("execute") /\ ~cmd.started
          /\ closes = 0
          /\ sshClient # None /\ pc # "raised" => Get(sshClient).transport
          /\ result = None /\ returned = None
          /\ pc = "done" =>
                /\ CopyToCompleted /\ uploaded = LedgerFrom(1)
                /\ cleanRemote => Entered("cleanup") /\ unlinked = remoteToDelete
                /\ ~cleanRemote => unlinked = << >>
    /\ pc = "done" /\ remoteCmd # None =>
          /\ Entered("execute")
          /\ returned = IF ex = None THEN Some(SuccessResult)
                        ELSE Some(TimeoutResult(Get(ex)))

C14_Witness ==
    /\ pc = "done" /\ remoteCmd = None
    /\ returned = None
    /\ cleanRemote /\ copyObjectsTo = << CO_File, CO_NoRemote >>
    /\ Len(unlinked) = 2

\* The constructor call raises: a CopyObject or the credentials are refused.
ConstructorRefuses ==
    \/ \E i \in DOMAIN args.copyTo :
          CopyObjectRaises(args.copyTo[i].local, args.copyTo[i].remote)
    \/ CredentialsRejected(args.username, args.password)

\* The copy-from list is kept as given, and a non-empty one fails run() at
\* the copy-from step and nowhere else.
CopyFromStaged ==
    /\ (pc # "new" /\ ~ConstructorRefuses) =>
          /\ pc \notin { "ctorError", "copyObjectError" }
          /\ copyObjectsFrom = args.copyFrom
    /\ (runs > 0 /\ Len(copyObjectsFrom) # 0) =>
          /\ pc # "done"
          /\ Entered("copyFrom") => (pc = "raised" /\ exc = "NotImplementedError")
    /\ exc = "NotImplementedError" =>
          /\ pc = "raised" /\ Len(copyObjectsFrom) # 0
          /\ steps[Len(steps)] = "copyFrom"
          /\ CopyToCompleted /\ uploaded = LedgerFrom(1)
          /\ remoteCmd # None =>
                /\ Entered("execute") /\ result # None
                /\ cmd.started => CommandOver
          /\ unlinked = << >>

IsProperPrefix(seq, full) ==
    Len(seq) < Len(full) /\ seq = SubSeq(full, 1, Len(seq))

\* run() raised inside the copy-to step.
CopyToFailed == runs > 0 /\ pc = "raised" /\ copyIdx \in DOMAIN copyObjectsTo

\* A put failed and run() ended there, with nothing done after and nothing
\* undone.
PutFailureFatal ==
    CopyToFailed /\ exc = "IOError" =>
        /\ steps = << "copyTo" >>
        /\ ~cmd.started /\ result = None /\ returned = None
        /\ unlinked = << >>
        /\ IsProperPrefix(uploaded, LedgerFrom(1))
        /\ Range(uploaded) \subseteq DOMAIN remoteFiles
        /\ todo # << >> /\ Head(todo).op = "put"
        /\ Head(todo).remote = LedgerFrom(1)[Len(uploaded) + 1]

\* C16: a put that fails in the copy-to step ends the run: the exception
\* leaves run(), the command is not started, there is no Result, no unlink
\* is issued, the files uploaded before stay on the remote, and neither the
\* rest of the entry nor a later entry is attempted.
C16_PutFailureFatal ==
    /\ []PutFailureFatal
    /\ [][pc = "copyTo" /\ todo # << >> /\ Head(todo).op = "put"
             /\ uploaded' = uploaded =>
                /\ pc' = "raised" /\ exc' = "IOError"
                /\ UNCHANGED << fsVars, copyVars, cmdVars, result, unlinked >>]_vars

C16_Witness ==
    /\ pc = "raised" /\ exc = "IOError"
    /\ copyObjectsTo = << CO_File, CO_NoRemote >> /\ copyIdx = 2
    /\ uploaded = << << "rf" >> >>
    /\ << "rf" >> \in DOMAIN remoteFiles
    /\ cleanRemote /\ remoteCmd # None

\* C17: every connection the runner opens goes to the configured endpoint:
\* the configured host, the configured port, the configured username and
\* password.
C17_ConfiguredEndpoint ==
    sshClient # None =>
        /\ Get(sshClient).host = remoteIp
        /\ Get(sshClient).port = remotePort
        /\ Get(sshClient).username = remoteUsername
        /\ Get(sshClient).password = remotePassword

\* Both sessions are open.
SessionsLive ==
    /\ sshClient # None /\ Get(sshClient).transport
    /\ sftpClient # None /\ ~Get(sftpClient).closed

\* The sessions at the steps that use them: transfers and unlinks go over
\* open sessions, the command over an open transport; a run that closed
\* nothing connected at most once, and a run connects at most once more than
\* it closed.
SessionsUsable ==
    /\ pc \in { "copyTo", "unlink" } => SessionsLive
    /\ pc \in { "poll", "executeReturn" } => Get(sshClient).transport
    /\ (pc = "done" /\ cleanRemote) => SessionsLive
    /\ closes = 0 => conns <= 1 /\ sftps <= 1
    /\ conns <= closes + 1 /\ sftps <= closes + 1

\* C18: _getSshClient connects exactly when no client is cached or its
\* transport is gone and otherwise keeps the cached client; _getSftpClient
\* opens a file session exactly when none is cached or its channel is closed
\* and otherwise keeps the cached one.  So a run without a forced close
\* connects at most once, and after the forced close of a timeout the
\* cleanup step connects again and unlinks over the new, open session.
C18_SessionCaching ==
    /\ []SessionsUsable
    /\ [][pc = "execute" =>
             /\ conns' = (IF NeedConnect THEN conns + 1 ELSE conns)
             /\ ~NeedConnect => sshClient' = sshClient]_vars
    /\ [][(pc = "clean" \/ runs' # runs) =>
             LET before == IF pc = "clean" THEN << conns, sftps >> ELSE << 0, 0 >>
             IN  /\ conns' - before[1] =
                       (IF NeedSftp /\ NeedConnect THEN 1 ELSE 0)
                 /\ sftps' - before[2] =
                       (IF NeedSftp /\ pc' # "raised" THEN 1 ELSE 0)
                 /\ ~NeedSftp => UNCHANGED << sshClient, sftpClient >>
                 /\ (NeedSftp /\ ~NeedConnect) => sshClient' = sshClient]_vars
    /\ [][(pc = "clean" /\ closes > 0 /\ pc' # "raised") =>
             /\ conns' = conns + 1 /\ sftps' = sftps + 1
             /\ SessionsLive']_vars

\* The command timed out and the cleanup unlinked over a second connection.
C18_Witness ==
    /\ pc = "done" /\ cleanRemote
    /\ closes = 1 /\ conns = 2 /\ sftps = 2
    /\ unlinked # << >>
    /\ SessionsLive

\* seq is the beginning of full.
IsPrefix(seq, full) ==
    Len(seq) <= Len(full) /\ seq = SubSeq(full, 1, Len(seq))

\* The ledger holds what the puts of this run() call returned, and the
\* unlinks of this call follow it.
LedgerOfThisRun ==
    /\ IsPrefix(remoteToDelete, uploaded)
    /\ CopyToCompleted => remoteToDelete = uploaded
    /\ IsPrefix(unlinked, remoteToDelete)

\* C19: the ledger holds exactly the paths the puts of the current run()
\* call returned: every call starts with an empty ledger, so no path of an
\* earlier call is carried over, and a cleanup unlinks only paths the
\* current call uploaded.
C19_LedgerPerRun ==
    /\ []LedgerOfThisRun
    /\ [][runs' # runs =>
             remoteToDelete' = << >> /\ uploaded' = << >> /\ unlinked' = << >>]_vars
    /\ [][(runs' = runs /\ unlinked' # unlinked) =>
             unlinked' = Append(unlinked, uploaded[Len(unlinked) + 1])]_vars

\* A second run() call on the runner has cleaned up what it uploaded.
C19_Witness ==
    /\ runs = 2 /\ pc = "done" /\ cleanRemote
    /\ copyObjectsTo = << CO_File, CO_NoRemote >>
    /\ faults = 1 /\ remoteCmd = None
    /\ unlinked = << << "rf" >>, << "a" >> >>
    /\ remoteFiles = EmptyFn

\* C20: a connection accepts unknown host keys (AutoAddPolicy) if and only
\* if a username and a password are both configured; with neither
\* configured no connection of the runner, first or later, has that policy.
C20_AutoAddIffCredentials ==
    sshClient # None =>
        /\ Get(sshClient).autoAdd <=>
              (Supplied(remoteUsername) /\ Supplied(remotePassword))
        /\ (~Supplied(remoteUsername) /\ ~Supplied(remotePassword)) =>
              ~Get(sshClient).autoAdd

\* A runner without credentials has connected again after a forced close.
C20_Witness ==
    /\ closes = 1 /\ conns = 2
    /\ remoteUsername = PyNone /\ remotePassword = PyNone
    /\ Get(sshClient).transport /\ ~Get(sshClient).autoAdd

\* C21: _remoteIsDir answers true exactly when the stat returned and the
\* path is a directory; when the stat failed, for a missing path or for any
\* other reason, it answers false and raises nothing.  So a directory made
\* by _safeMkdir whose stat returns is answered true, and a path that is no
\* directory (never made, removed again, or a file) is answered false.
C21_RemoteIsDirBestEffort ==
    isDir # None =>
        LET c == Get(isDir) IN
        /\ exc = "none"
        /\ c.answer = (c.statOk /\ c.path \in remoteDirs)
        /\ ~c.statOk => ~c.answer
        /\ c.statOk => CanStat(c.path)
        /\ (c.statOk /\ c.path \in made /\ c.path \in remoteDirs) => c.answer
        /\ c.path \notin remoteDirs => ~c.answer

\* A directory that _safeMkdir made and rmdir removed is answered false,
\* the stat of the missing path having failed.
C21_Witness ==
    /\ isDir = Some([path |-> << "test" >>, statOk |-> FALSE, answer |-> FALSE])
    /\ << "test" >> \in made /\ << "test" >> \notin remoteDirs
    /\ faults = 0

\* The forced close and what the poll loop saw: no close before the command
\* is started or while the loop runs, none once readiness was seen, one when
\* the loop ended at the deadline without having seen it.
ClosedIffDeadline ==
    /\ closes <= 1
    /\ closes = 1 =>
          /\ cmd.started /\ Entered("execute")
          /\ ~SawReady /\ now >= deathTime
          /\ cmd.killedAt = now
          /\ ex = Exception("TimeoutError", TRUE)
    /\ pc \in { "copyTo", "execute", "poll", "executeReturn" } => closes = 0
    /\ (cmd.started /\ pc # "poll") => (closes = 1 <=> ~SawReady)
    /\ (closes = 1 /\ pc \in { "except", "copyFrom", "clean" }) =>
          ~Get(sshClient).transport /\ Get(sftpClient).closed
    /\ (cmd.started /\ SawReady /\ pc # "raised") => SessionsLive

\* C22: the execute step closes the transport if and only if the poll loop
\* came to the deadline without having seen the command ready: at most once
\* in a run, never before the command is started, never after readiness was
\* seen, a Success run leaving the cached sessions open so that the cleanup
\* step unlinks over them without connecting again.
C22_ClosedIffDeadline ==
    /\ []ClosedIffDeadline
    /\ [][(runs' = runs /\ closes' # closes) =>
             /\ pc = "poll" /\ ~BeforeDeathTime /\ ~SawReady
             /\ closes' = closes + 1
             /\ ~Get(sshClient').transport]_vars
    /\ [][(pc = "poll" /\ pc' # "poll") =>
             (closes' = closes + 1 <=> ~(BeforeDeathTime /\ exit_status_ready))]_vars
    /\ [][(pc = "clean" /\ cmd.started /\ SawReady) =>
             UNCHANGED << sshClient, sftpClient, conns, sftps >>]_vars

\* The command ended before the deadline but after the last poll: the loop
\* came to the deadline and the transport was closed.
C22_Witness ==
    /\ pc = "copyFrom" /\ closes = 1
    /\ cmd.finishAt # Never /\ cmd.finishAt < deathTime
    /\ lastPollAt # Never /\ ~SawReady
    /\ ~Get(sshClient).transport
====
